---- MODULE Spec2Model ----
(***************************************************************************)
(* Ginseng: the parallel transfer orchestrator and its progress tracker.   *)
(*                                                                         *)
(* One transfer session (share_files_parallel / download_files_parallel):  *)
(* the orchestrator enumerates the files, creates the tracker entries,     *)
(* runs one worker per file under a bounded concurrency (the               *)
(* for_each_concurrent of PARALLEL_IMPLEMENTATION.md), every worker feeds  *)
(* the byte counts of its transport stream into the shared ProgressTracker *)
(* and the orchestrator ends the session.  The events go out on the         *)
(* Channel<ProgressEvent>: transferProgress through the RateLimiter, the   *)
(* start, the end and each file's end always.                              *)
(*                                                                         *)
(* The session record carries the fields of TransferProgress and           *)
(* FileProgress (src/src/types/progress.ts).  The tracker is one           *)
(* Arc<RwLock<TransferProgress>>: each tracker operation is one atomic     *)
(* step.                                                                   *)
(***************************************************************************)
EXTENDS Integers, Sequences, FiniteSets, TLC

\* ------------------------------------------------------------- bounds
\* Largest number of files of one session.
MaxFiles == 2
\* Largest file size, in bytes.
MaxSize == 1
\* By how many bytes a transport primitive may report more than the file holds.
Overshoot == 1
\* Largest number of cpus of the machine (availableParallelism).
MaxCpus == 2
\* The clock advances in steps of TickMs milliseconds, up to MaxTime.
TickMs == 50
MaxTime == 200
\* Largest number of paths the file dialog can return.
MaxPaths == 2
\* Largest number of times the DropZone effect runs.
MaxEffects == 2

\* -------------------------------------------------- program constants
\* Upload: min(8, num_cpus) concurrent files.
UploadMaxConcurrency == 8
\* Download: 6 concurrent files.
DownloadConcurrency == 6
\* RateLimiter: progress updates are throttled to 100 ms intervals.
IntervalMs == 100

\* A descriptor whose size PathResolver / the remote metadata cannot give.
NoSize == -1

Min(a, b) == IF a < b THEN a ELSE b
Max(a, b) == IF a > b THEN a ELSE b

\* ------------------------------------------------------------- types
TransferType == {"upload", "download"}

TransferStage ==
    {"initializing", "connecting", "transferring", "finalizing",
     "completed", "failed", "cancelled"}

FileStatus == {"pending", "transferring", "completed", "failed", "skipped"}

\* The position of a stage in Initializing -> Connecting -> Transferring ->
\* Finalizing -> {Completed | Failed}.
StageRank(st) ==
    CASE st = "initializing" -> 0
      [] st = "connecting"   -> 1
      [] st = "transferring" -> 2
      [] st = "finalizing"   -> 3
      [] OTHER               -> 4

IsTerminalStage(st) == st \in {"completed", "failed"}

IsTerminalStatus(st) == st \in {"completed", "failed", "skipped"}

\* The error strings of the taxonomy; "" is no error.
NoError == ""
ErrorStrings == {"PathError", "MetadataError", "TransportError", "IoError"}

VARIABLES
    session,            \* the tracker's TransferProgress
    numCpus,            \* availableParallelism of the machine
    descriptors,        \* the sizes of the files the invocation names
    queue,              \* the file ids not yet handed to a worker
    active,             \* the file ids whose worker task is running
    wpc,                \* each worker's position
    copy_progress,      \* upload worker: last CopyProgress offset
    outboard_progress,  \* upload worker: last OutboardProgress offset
    now,                \* the clock, in milliseconds since the invocation
    lastEmitTime,       \* the RateLimiter's Arc<RwLock<SystemTime>>
    sent,               \* the events sent on the Channel<ProgressEvent>
    result,             \* what the entry point has returned to its caller
    refused,            \* the tracker call of a client it last refused
    channelOpen,        \* the consumer's end of the Channel still exists
    consumer,           \* FileTransfer: its React state and what is in flight
    dropzone            \* DropZone: its effect, its listeners, its state

vars ==
    <<session, numCpus, descriptors, queue, active, wpc,
      copy_progress, outboard_progress, now, lastEmitTime, sent, result,
      refused, channelOpen, consumer, dropzone>>

\* The webview's side: nothing in the backend writes it.
uiVars == <<consumer, dropzone>>

\* The clock, the limiter, the channel and the entry point's outcome.
emitVars == <<now, lastEmitTime, sent, result>>

\* ----------------------------------------------------- ProgressTracker
RECURSIVE SumField(_, _, _)
\* The sum of field `which` over files 1..n.
SumField(files, n, which) ==
    IF n = 0 THEN 0
    ELSE (IF which = "total" THEN files[n].totalBytes
          ELSE files[n].transferredBytes)
         + SumField(files, n - 1, which)

SumTotalBytes(files) == SumField(files, Len(files), "total")

SumTransferredBytes(files) == SumField(files, Len(files), "transferred")

\* ProgressTracker::new: a session with no file entries yet.
NewTracker(tt) ==
    [transferType |-> tt, stage |-> "initializing",
     totalFiles |-> 0, completedFiles |-> 0, failedFiles |-> 0,
     totalBytes |-> 0, transferredBytes |-> 0,
     files |-> <<>>, error |-> NoError]

NewFileEntry(size) ==
    [totalBytes |-> size, transferredBytes |-> 0,
     status |-> "pending", error |-> NoError]

\* initialize fails on an empty descriptor list or an unavailable size.
InitializeFails(sizes) ==
    \/ Len(sizes) = 0
    \/ \E i \in 1..Len(sizes) : sizes[i] = NoSize

\* initialize(direction, fileDescriptors): one pending entry per descriptor.
initialize(s, sizes) ==
    LET fs == [i \in 1..Len(sizes) |-> NewFileEntry(sizes[i])]
    IN [s EXCEPT !.files = fs,
                 !.totalFiles = Len(sizes),
                 !.totalBytes = SumTotalBytes(fs)]

\* Mutant: the aggregate is tracked on its own, by adding every reported count,
\* and not recomputed from the entries.
updateFile_drift(s, f, bytes, st) ==
    IF IsTerminalStatus(s.files[f].status)
       \/ bytes < s.files[f].transferredBytes
    THEN s
    ELSE [s EXCEPT !.files[f].transferredBytes = bytes,
                   !.files[f].status = st,
                   !.transferredBytes = @ + bytes]

\* Mutant: a lost update.  The entry is written into a copy of the file list
\* read before the other workers' updates, which are overwritten with it.
updateFile_clobber(s, f, bytes, st) ==
    IF IsTerminalStatus(s.files[f].status)
       \/ bytes < s.files[f].transferredBytes
    THEN s
    ELSE LET fs == [g \in 1..Len(s.files) |->
                      IF g = f
                      THEN [s.files[g] EXCEPT !.transferredBytes = bytes,
                                              !.status = st]
                      ELSE IF s.files[g].status = "transferring"
                      THEN [s.files[g] EXCEPT !.transferredBytes = 0]
                      ELSE s.files[g]]
         IN [s EXCEPT !.files = fs,
                      !.transferredBytes = SumTransferredBytes(fs)]

\* Mutant: the lower byte count is written all the same.
updateFile_nonMonotonic(s, f, bytes, st) ==
    IF IsTerminalStatus(s.files[f].status)
    THEN s
    ELSE LET fs == [s.files EXCEPT ![f].transferredBytes = bytes,
                                   ![f].status = st]
         IN [s EXCEPT !.files = fs,
                      !.transferredBytes = SumTransferredBytes(fs)]

\* updateFile(fileId, transferredBytes, status): ignored on a frozen entry and
\* on a byte count lower than the recorded one; the aggregate is recomputed.
updateFile(s, f, bytes, st) ==
    IF IsTerminalStatus(s.files[f].status)
       \/ bytes < s.files[f].transferredBytes
    THEN s
    ELSE LET fs == [s.files EXCEPT ![f].transferredBytes = bytes,
                                   ![f].status = st]
         IN [s EXCEPT !.files = fs,
                      !.transferredBytes = SumTransferredBytes(fs)]

\* Mutant: a torn update.  The entry's status is written and the session's
\* counter is not yet.
markTerminal_torn(s, f, st, err) ==
    IF IsTerminalStatus(s.files[f].status)
    THEN s
    ELSE [s EXCEPT !.files[f].status = st,
                   !.files[f].error = err]

\* Mutant: the entry is not frozen; a second call writes and counts again.
markTerminal_recount(s, f, st, err) ==
    [s EXCEPT !.files[f].status = st,
              !.files[f].error = err,
              !.completedFiles =
                  IF st = "completed" THEN @ + 1 ELSE @,
              !.failedFiles =
                  IF st = "failed" THEN @ + 1 ELSE @]

\* markTerminal(fileId, status, error): freezes the entry and counts it.
markTerminal(s, f, st, err) ==
    IF IsTerminalStatus(s.files[f].status)
    THEN s
    ELSE [s EXCEPT !.files[f].status = st,
                   !.files[f].error = err,
                   !.completedFiles =
                       IF st = "completed" THEN @ + 1 ELSE @,
                   !.failedFiles =
                       IF st = "failed" THEN @ + 1 ELSE @]

setStage(s, st) == [s EXCEPT !.stage = st]

\* The session fails as a whole.
failTransfer(s, err) == [s EXCEPT !.stage = "failed", !.error = err]

\* snapshot(): a copy of the tracker's state.
snapshot == session

\* --------------------------------------------------------- RateLimiter
\* Mutant: the limiter lets every event through.
shouldEmit_always(t, last, intervalMs) == TRUE

\* shouldEmit(now, lastEmitTime, intervalMs): a non-critical event may be
\* emitted once intervalMs has elapsed since the last emitted one.
shouldEmit(t, last, intervalMs) == t - last >= intervalMs

\* Mutant: the limiter never records the time of the event it let through.
lastEmitAfter_stale(t, last, intervalMs) == last

\* The limiter's lastEmitTime after shouldEmit(t, last, intervalMs).
lastEmitAfter(t, last, intervalMs) ==
    IF shouldEmit(t, last, intervalMs) THEN t ELSE last

\* -------------------------------------------------------- EventChannel
\* The events sent so far, by kind: how many transferStarted and
\* transferCompleted, the times of the transferProgress events, each file's
\* count of terminal fileProgress events, and the transferFailed events with
\* the session and the error they carried.  stageChanged is not recorded.
NoEvents ==
    [transferStarted |-> 0, transferProgress |-> <<>>,
     fileProgress |-> <<>>, transferCompleted |-> 0,
     transferFailed |-> <<>>]

\* Mutant: a send on a closed channel is not noticed and goes on the record.
Deliver_unnoticed(ev) == ev

\* Channel::send by a producer: the record of events sent becomes ev while the
\* consumer's end exists; on a closed channel the send returns an error at
\* once, which the producer notices, and nothing is sent.
Deliver(ev) == IF channelOpen THEN ev ELSE sent

\* The session's terminal event: transferCompleted or transferFailed with the
\* final snapshot; nothing while the session is not terminal.
SendTerminal(ev, s) ==
    IF s.stage = "completed"
    THEN [ev EXCEPT !.transferCompleted = @ + 1]
    ELSE IF s.stage = "failed"
    THEN [ev EXCEPT !.transferFailed =
                        Append(@, [transfer |-> s, error |-> s.error])]
    ELSE ev

\* What the entry point returns once the session has stage st.
ResultOf(st) ==
    IF st = "completed" THEN "ok"
    ELSE IF st = "failed" THEN "error" ELSE "running"

\* A worker's progress update: a transferProgress event is sent when the
\* limiter allows it; check and update of lastEmitTime are one step.
EmitProgressIfDue ==
    /\ sent' = IF shouldEmit(now, lastEmitTime, IntervalMs)
               THEN Deliver([sent EXCEPT !.transferProgress = Append(@, now)])
               ELSE sent
    /\ lastEmitTime' = lastEmitAfter(now, lastEmitTime, IntervalMs)
    /\ UNCHANGED <<now, result>>

\* --------------------------------------------------------- orchestrator
\* The concurrency limit of the session.
ConcurrencyLimit ==
    IF session.transferType = "upload"
    THEN Min(UploadMaxConcurrency, numCpus)
    ELSE DownloadConcurrency

\* A value of type TransferProgress | null: null, or the snapshot s.
Null == <<>>
Some(s) == <<s>>

\* The toasts shown so far, by message.
NoToasts ==
    [generated |-> 0, downloaded |-> 0, failed |-> 0, invokeFailed |-> 0,
     precondition |-> 0]

\* FileTransfer as mounted: its useState values, and of the one invocation it
\* makes: which command (invoked) with which paths, the local generatedTicket
\* of sendFiles, the channel messages not yet handed to onmessage (inbox),
\* and whether the code after the await has run (promise).
NoConsumer ==
    [selectedPaths |-> {}, ticket |-> "", sendLoading |-> FALSE,
     receiveTicket |-> "", receiveLoading |-> FALSE, lastDownload |-> "",
     uploadProgress |-> Null, downloadProgress |-> Null,
     toasts |-> NoToasts,
     invoked |-> "none", paths |-> {}, generatedTicket |-> "",
     inbox |-> <<>>, promise |-> "none"]

\* DropZone before it is mounted: no effect has run.  Of each run of the
\* effect: the `disabled` its closure captured, whether its onDragDropEvent
\* registration has resolved (and the then-callback has stored unlisten in
\* cleanup), whether the function the effect returned has run, and whether
\* its listener is registered with the webview.  Of the component: mounted,
\* isDragging, whether onPathsSelected was called, and whether a listener
\* called a setter or onPathsSelected after its effect's cleanup (stale).
NoDropZone ==
    [effects |-> <<>>, mounted |-> FALSE, isDragging |-> FALSE,
     selected |-> FALSE, stale |-> FALSE]

Sizes == (1..MaxSize) \cup {NoSize}

DescriptorLists ==
    UNION {[1..n -> Sizes] : n \in 0..MaxFiles}

Init ==
    /\ \E tt \in TransferType : session = NewTracker(tt)
    /\ numCpus \in 1..MaxCpus
    /\ descriptors \in DescriptorLists
    /\ queue = <<>>
    /\ active = {}
    /\ wpc = <<>>
    /\ copy_progress = <<>>
    /\ outboard_progress = <<>>
    /\ now = 0
    \* the limiter is created with the session and records that time
    /\ lastEmitTime = 0
    /\ sent = NoEvents
    /\ result = "running"
    /\ refused = "none"
    /\ channelOpen = TRUE
    /\ consumer = NoConsumer
    /\ dropzone = NoDropZone

\* Pre-flight fault: the path list cannot be enumerated or the ticket cannot
\* be parsed, or initialize fails.  No file entry exists and no worker runs.
PreflightError ==
    IF session.transferType = "upload" THEN "PathError" ELSE "MetadataError"

\* Mutant: the error is returned to the caller and no event is sent.
PreflightFault_silent ==
    /\ session.stage = "initializing"
    /\ session' = failTransfer(session, PreflightError)
    /\ result' = "error"
    /\ UNCHANGED <<uiVars, channelOpen, refused>>
    /\ UNCHANGED <<numCpus, descriptors, queue, active, wpc,
                   copy_progress, outboard_progress,
                   now, lastEmitTime, sent>>

PreflightFault ==
    /\ session.stage = "initializing"
    /\ session' = failTransfer(session, PreflightError)
    /\ sent' = Deliver(SendTerminal(sent,
                                    failTransfer(session, PreflightError)))
    /\ result' = "error"
    /\ UNCHANGED <<now, lastEmitTime>>
    /\ UNCHANGED <<uiVars, channelOpen, refused>>
    /\ UNCHANGED <<numCpus, descriptors, queue, active, wpc,
                   copy_progress, outboard_progress>>

\* Mutant: the entries are created whatever the descriptors are.
Enumerate_unchecked ==
    /\ session.stage = "initializing"
    /\ session' = setStage(initialize(session, descriptors), "connecting")
    /\ sent' = Deliver([sent EXCEPT
                   !.transferStarted = @ + 1,
                   !.fileProgress = [i \in 1..Len(descriptors) |-> 0]])
    /\ UNCHANGED <<now, lastEmitTime, result>>
    /\ queue' = [i \in 1..Len(descriptors) |-> i]
    /\ wpc' = [i \in 1..Len(descriptors) |-> "queued"]
    /\ copy_progress' = [i \in 1..Len(descriptors) |-> 0]
    /\ outboard_progress' = [i \in 1..Len(descriptors) |-> 0]
    /\ UNCHANGED <<uiVars, channelOpen, refused>>
    /\ UNCHANGED <<numCpus, descriptors, active>>

\* The file list is enumerated: the entries are created, all pending, and the
\* work queue holds every file id in order.
Enumerate ==
    /\ session.stage = "initializing"
    /\ ~InitializeFails(descriptors)
    /\ session' = setStage(initialize(session, descriptors), "connecting")
    /\ sent' = Deliver([sent EXCEPT
                   !.transferStarted = @ + 1,
                   !.fileProgress = [i \in 1..Len(descriptors) |-> 0]])
    /\ UNCHANGED <<now, lastEmitTime, result>>
    /\ queue' = [i \in 1..Len(descriptors) |-> i]
    /\ wpc' = [i \in 1..Len(descriptors) |-> "queued"]
    /\ copy_progress' = [i \in 1..Len(descriptors) |-> 0]
    /\ outboard_progress' = [i \in 1..Len(descriptors) |-> 0]
    /\ UNCHANGED <<uiVars, channelOpen, refused>>
    /\ UNCHANGED <<numCpus, descriptors, active>>

\* The transport is up: workers may start.
Connect ==
    /\ session.stage = "connecting"
    /\ session' = setStage(session, "transferring")
    /\ UNCHANGED emitVars
    /\ UNCHANGED <<uiVars, channelOpen, refused>>
    /\ UNCHANGED <<numCpus, descriptors, queue, active, wpc,
                   copy_progress, outboard_progress>>

\* Mutant: the transport fault is returned to the caller and no event is sent.
ConnectFault_silent ==
    /\ session.stage = "connecting"
    /\ session' = failTransfer(session, "TransportError")
    /\ result' = "error"
    /\ UNCHANGED <<uiVars, channelOpen, refused>>
    /\ UNCHANGED <<numCpus, descriptors, queue, active, wpc,
                   copy_progress, outboard_progress,
                   now, lastEmitTime, sent>>

\* A transport fault severs the session before any worker has run.
ConnectFault ==
    /\ session.stage = "connecting"
    /\ session' = failTransfer(session, "TransportError")
    /\ sent' = Deliver(SendTerminal(sent,
                                    failTransfer(session, "TransportError")))
    /\ result' = "error"
    /\ UNCHANGED <<now, lastEmitTime>>
    /\ UNCHANGED <<uiVars, channelOpen, refused>>
    /\ UNCHANGED <<numCpus, descriptors, queue, active, wpc,
                   copy_progress, outboard_progress>>

\* Mutant: the limit is compared off by one.
CanSpawn_offByOne(nActive, limit) == nActive <= limit

\* for_each_concurrent starts the next file only below the limit.
CanSpawn(nActive, limit) == nActive < limit

\* A permit is taken and the next descriptor's worker task is started.
Spawn ==
    /\ session.stage = "transferring"
    /\ queue # <<>>
    /\ CanSpawn(Cardinality(active), ConcurrencyLimit)
    /\ active' = active \cup {Head(queue)}
    /\ wpc' = [wpc EXCEPT ![Head(queue)] = "spawned"]
    /\ queue' = Tail(queue)
    /\ UNCHANGED emitVars
    /\ UNCHANGED <<uiVars, channelOpen, refused>>
    /\ UNCHANGED <<session, numCpus, descriptors,
                   copy_progress, outboard_progress>>

\* --------------------------------------------------------------- worker
\* Mutant: the combined upload progress without its .min(total_bytes).
CombinedUploadProgress_unclamped(copied, hashed, total) ==
    Max(copied, hashed)

\* Upload: max(copy_progress, outboard_progress).min(total_bytes).
CombinedUploadProgress(copied, hashed, total) ==
    Min(Max(copied, hashed), total)

\* Download: total_bytes.min(file_size).
CombinedDownloadProgress(downloaded, size) == Min(downloaded, size)

\* The byte counts a transport primitive of file f may carry.
Reported(f) == 0..(session.files[f].totalBytes + Overshoot)

\* Worker step 1: the entry becomes transferring.
WorkerStart(f) ==
    /\ wpc[f] = "spawned"
    /\ session' = updateFile(session, f, 0, "transferring")
    /\ wpc' = [wpc EXCEPT ![f] = "streaming"]
    /\ UNCHANGED emitVars
    /\ UNCHANGED <<uiVars, channelOpen, refused>>
    /\ UNCHANGED <<numCpus, descriptors, queue, active,
                   copy_progress, outboard_progress>>

\* AddProgressItem::CopyProgress(offset).
CopyProgress(f, b) ==
    /\ session.transferType = "upload"
    /\ wpc[f] = "streaming"
    /\ copy_progress' = [copy_progress EXCEPT ![f] = b]
    /\ session' = updateFile(session, f,
                      CombinedUploadProgress(b, outboard_progress[f],
                                             session.files[f].totalBytes),
                      "transferring")
    /\ EmitProgressIfDue
    /\ UNCHANGED <<uiVars, channelOpen, refused>>
    /\ UNCHANGED <<numCpus, descriptors, queue, active, wpc,
                   outboard_progress>>

\* AddProgressItem::OutboardProgress(offset).
OutboardProgress(f, b) ==
    /\ session.transferType = "upload"
    /\ wpc[f] = "streaming"
    /\ outboard_progress' = [outboard_progress EXCEPT ![f] = b]
    /\ session' = updateFile(session, f,
                      CombinedUploadProgress(copy_progress[f], b,
                                             session.files[f].totalBytes),
                      "transferring")
    /\ EmitProgressIfDue
    /\ UNCHANGED <<uiVars, channelOpen, refused>>
    /\ UNCHANGED <<numCpus, descriptors, queue, active, wpc,
                   copy_progress>>

\* Mutant: the worker writes the byte count into its entry directly and the
\* session's aggregate is not recomputed.
DownloadProgress_direct(f, b) ==
    /\ session.transferType = "download"
    /\ wpc[f] = "streaming"
    /\ session' = [session EXCEPT
                      !.files[f].transferredBytes =
                          Max(@, CombinedDownloadProgress(
                                     b, session.files[f].totalBytes))]
    /\ EmitProgressIfDue
    /\ UNCHANGED <<uiVars, channelOpen, refused>>
    /\ UNCHANGED <<numCpus, descriptors, queue, active, wpc,
                   copy_progress, outboard_progress>>

\* Mutant: a report above the recorded size raises the entry's totalBytes.
DownloadProgress_resize(f, b) ==
    /\ session.transferType = "download"
    /\ wpc[f] = "streaming"
    /\ session' = updateFile(
                      [session EXCEPT !.files[f].totalBytes = Max(@, b)], f,
                      CombinedDownloadProgress(b, Max(session.files[f].totalBytes, b)),
                      "transferring")
    /\ EmitProgressIfDue
    /\ UNCHANGED <<uiVars, channelOpen, refused>>
    /\ UNCHANGED <<numCpus, descriptors, queue, active, wpc,
                   copy_progress, outboard_progress>>

\* DownloadProgressItem::Progress(bytes).
DownloadProgress(f, b) ==
    /\ session.transferType = "download"
    /\ wpc[f] = "streaming"
    /\ session' = updateFile(session, f,
                      CombinedDownloadProgress(b, session.files[f].totalBytes),
                      "transferring")
    /\ EmitProgressIfDue
    /\ UNCHANGED <<uiVars, channelOpen, refused>>
    /\ UNCHANGED <<numCpus, descriptors, queue, active, wpc,
                   copy_progress, outboard_progress>>

\* Mutant: a worker that failed ends without releasing its permit.
Release_leakOnFailure(f, st, err) ==
    /\ session' = markTerminal(session, f, st, err)
    /\ active' = IF st = "failed" THEN active ELSE active \ {f}
    /\ wpc' = [wpc EXCEPT ![f] = "done"]
    /\ copy_progress' = [copy_progress EXCEPT ![f] = 0]
    /\ outboard_progress' = [outboard_progress EXCEPT ![f] = 0]
    /\ sent' = Deliver([sent EXCEPT !.fileProgress[f] = @ + 1])
    /\ UNCHANGED <<now, lastEmitTime, result>>
    /\ UNCHANGED <<uiVars, channelOpen, refused>>
    /\ UNCHANGED <<numCpus, descriptors, queue>>

\* The worker ends: its entry is terminal and its permit is released.
Release(f, st, err) ==
    /\ session' = markTerminal(session, f, st, err)
    /\ active' = active \ {f}
    /\ wpc' = [wpc EXCEPT ![f] = "done"]
    /\ copy_progress' = [copy_progress EXCEPT ![f] = 0]
    /\ outboard_progress' = [outboard_progress EXCEPT ![f] = 0]
    /\ sent' = Deliver([sent EXCEPT !.fileProgress[f] = @ + 1])
    /\ UNCHANGED <<now, lastEmitTime, result>>
    /\ UNCHANGED <<uiVars, channelOpen, refused>>
    /\ UNCHANGED <<numCpus, descriptors, queue>>

\* Upload: AddProgressItem::Done, the stream is exhausted without error.
UploadDone(f) ==
    /\ session.transferType = "upload"
    /\ wpc[f] = "streaming"
    /\ Release(f, "completed", NoError)

\* Download: the stream ends; the file is exported to the filesystem next.
DownloadStreamEnd(f) ==
    /\ session.transferType = "download"
    /\ wpc[f] = "streaming"
    /\ wpc' = [wpc EXCEPT ![f] = "exporting"]
    /\ UNCHANGED emitVars
    /\ UNCHANGED <<uiVars, channelOpen, refused>>
    /\ UNCHANGED <<session, numCpus, descriptors, queue, active,
                   copy_progress, outboard_progress>>

\* Download: the export succeeded.
ExportDone(f) ==
    /\ wpc[f] = "exporting"
    /\ Release(f, "completed", NoError)

\* Download: the export failed (disk full, ...): this file only.
ExportError(f) ==
    /\ wpc[f] = "exporting"
    /\ Release(f, "failed", "IoError")

\* Mutant: the error is only logged; the entry is left as it is.
StreamError_logOnly(f) ==
    /\ wpc[f] = "streaming"
    /\ active' = active \ {f}
    /\ wpc' = [wpc EXCEPT ![f] = "done"]
    /\ copy_progress' = [copy_progress EXCEPT ![f] = 0]
    /\ outboard_progress' = [outboard_progress EXCEPT ![f] = 0]
    /\ UNCHANGED emitVars
    /\ UNCHANGED <<uiVars, channelOpen, refused>>
    /\ UNCHANGED <<session, numCpus, descriptors, queue>>

\* Mutant: one file's error ends the session and drops the files still queued.
StreamError_abortAll(f) ==
    /\ wpc[f] = "streaming"
    /\ session' = failTransfer(markTerminal(session, f, "failed", "TransportError"),
                               "TransportError")
    /\ active' = active \ {f}
    /\ queue' = <<>>
    /\ wpc' = [wpc EXCEPT ![f] = "done"]
    /\ copy_progress' = [copy_progress EXCEPT ![f] = 0]
    /\ outboard_progress' = [outboard_progress EXCEPT ![f] = 0]
    /\ UNCHANGED emitVars
    /\ UNCHANGED <<uiVars, channelOpen, refused>>
    /\ UNCHANGED <<numCpus, descriptors>>

\* Mutant: the failed file is put back to pending and queued again (a retry).
StreamError_requeue(f) ==
    /\ wpc[f] = "streaming"
    /\ session' = [session EXCEPT !.files[f].status = "pending"]
    /\ active' = active \ {f}
    /\ queue' = Append(queue, f)
    /\ wpc' = [wpc EXCEPT ![f] = "queued"]
    /\ copy_progress' = [copy_progress EXCEPT ![f] = 0]
    /\ outboard_progress' = [outboard_progress EXCEPT ![f] = 0]
    /\ UNCHANGED emitVars
    /\ UNCHANGED <<uiVars, channelOpen, refused>>
    /\ UNCHANGED <<numCpus, descriptors>>

\* AddProgressItem::Error / DownloadProgressItem::Error: the stream ends early.
StreamError(f) ==
    /\ wpc[f] = "streaming"
    /\ Release(f, "failed", "TransportError")

\* ----------------------------------------------------- end of a session
\* Every worker has ended and no descriptor is left.
WorkersDrained == queue = <<>> /\ active = {}

\* Mutant: the drained check does not look at the stage.
Drain_anyStage ==
    /\ session.stage # "finalizing"
    /\ WorkersDrained
    /\ session' = setStage(session, "finalizing")
    /\ UNCHANGED emitVars
    /\ UNCHANGED <<uiVars, channelOpen, refused>>
    /\ UNCHANGED <<numCpus, descriptors, queue, active, wpc,
                   copy_progress, outboard_progress>>

\* Mutant: the orchestrator goes on once the queue is empty, with workers
\* still running.
Drain_early ==
    /\ session.stage = "transferring"
    /\ queue = <<>>
    /\ session' = setStage(session, "finalizing")
    /\ UNCHANGED emitVars
    /\ UNCHANGED <<uiVars, channelOpen, refused>>
    /\ UNCHANGED <<numCpus, descriptors, queue, active, wpc,
                   copy_progress, outboard_progress>>

\* for_each_concurrent returns: post-transfer steps begin.
Drain ==
    /\ session.stage = "transferring"
    /\ WorkersDrained
    /\ session' = setStage(session, "finalizing")
    /\ UNCHANGED emitVars
    /\ UNCHANGED <<uiVars, channelOpen, refused>>
    /\ UNCHANGED <<numCpus, descriptors, queue, active, wpc,
                   copy_progress, outboard_progress>>

\* Mutant: a session with a failed file ends Failed.
FinalStage_failedIfAnyFailed(s) ==
    IF s.failedFiles > 0 THEN "failed" ELSE "completed"

\* Mutant: the terminal stage is never set.
FinalStage_stuck(s) == s.stage

\* The stage a session that ran its workers ends in.
FinalStage(s) == "completed"

\* Mutant: the session's terminal event goes through the limiter like a
\* progress update.
Finalize_throttled ==
    /\ session.stage = "finalizing"
    /\ session' = setStage(session, FinalStage(session))
    /\ sent' = IF shouldEmit(now, lastEmitTime, IntervalMs)
               THEN Deliver(SendTerminal(sent,
                       setStage(session, FinalStage(session))))
               ELSE sent
    /\ lastEmitTime' = lastEmitAfter(now, lastEmitTime, IntervalMs)
    /\ result' = ResultOf(FinalStage(session))
    /\ UNCHANGED <<uiVars, channelOpen, refused>>
    /\ UNCHANGED <<now, numCpus, descriptors, queue, active, wpc,
                   copy_progress, outboard_progress>>

\* The session is finalized.
Finalize ==
    /\ session.stage = "finalizing"
    /\ session' = setStage(session, FinalStage(session))
    /\ sent' = Deliver(SendTerminal(sent,
                           setStage(session, FinalStage(session))))
    /\ result' = ResultOf(FinalStage(session))
    /\ UNCHANGED <<now, lastEmitTime>>
    /\ UNCHANGED <<uiVars, channelOpen, refused>>
    /\ UNCHANGED <<numCpus, descriptors, queue, active, wpc,
                   copy_progress, outboard_progress>>

\* Time passes while the session runs.
Tick ==
    /\ ~IsTerminalStage(session.stage)
    /\ now + TickMs <= MaxTime
    /\ now' = now + TickMs
    /\ UNCHANGED <<uiVars, channelOpen, refused>>
    /\ UNCHANGED <<session, numCpus, descriptors, queue, active, wpc,
                   copy_progress, outboard_progress,
                   lastEmitTime, sent, result>>

FileIds == 1..Len(session.files)

Next ==
    \/ PreflightFault
    \/ Enumerate
    \/ Connect
    \/ ConnectFault
    \/ Spawn
    \/ \E f \in FileIds : WorkerStart(f)
    \/ \E f \in FileIds : \E b \in Reported(f) : CopyProgress(f, b)
    \/ \E f \in FileIds : \E b \in Reported(f) : OutboardProgress(f, b)
    \/ \E f \in FileIds : \E b \in Reported(f) : DownloadProgress(f, b)
    \/ \E f \in FileIds : UploadDone(f)
    \/ \E f \in FileIds : DownloadStreamEnd(f)
    \/ \E f \in FileIds : ExportDone(f)
    \/ \E f \in FileIds : ExportError(f)
    \/ \E f \in FileIds : StreamError(f)
    \/ Drain
    \/ Finalize

Spec == Init /\ [][Next]_vars

\* The orchestrator task is scheduled: for_each_concurrent returns once its
\* workers have ended and the session is then finalized.
FairSpec == Spec /\ WF_vars(Drain) /\ WF_vars(Finalize)

\* The consumer disappears: its end of the channel is dropped.  Nothing in the
\* backend changes; in-flight transfers are not stopped.
CloseChannel ==
    /\ channelOpen
    /\ result = "running"
    /\ channelOpen' = FALSE
    /\ UNCHANGED <<session, numCpus, descriptors, queue, active, wpc,
                   copy_progress, outboard_progress, refused, uiVars>>
    /\ UNCHANGED emitVars

\* A transport sequence is finite: worker f's stream ends, with or without
\* an error, and so does the export that follows a download.
StreamEnds(f) ==
    \/ UploadDone(f)
    \/ DownloadStreamEnd(f)
    \/ StreamError(f)
    \/ ExportDone(f)
    \/ ExportError(f)

\* A session whose consumer may disappear at any point.
LiveNext == Next \/ CloseChannel

\* Every task is scheduled: the entry point runs its pre-flight and connects
\* or fails, for_each_concurrent starts the next file when a permit is free,
\* a started worker runs, every stream ends, and the orchestrator drains and
\* finalizes.
LiveSpec ==
    /\ Init
    /\ [][LiveNext]_vars
    /\ WF_vars(Enumerate \/ PreflightFault)
    /\ WF_vars(Connect \/ ConnectFault)
    /\ WF_vars(Spawn)
    /\ WF_vars(\E f \in FileIds : WorkerStart(f))
    /\ WF_vars(\E f \in FileIds : StreamEnds(f))
    /\ WF_vars(Drain)
    /\ WF_vars(Finalize)

\* The session with the clock running.
TimedNext == Next \/ Tick

TimedSpec == Init /\ [][TimedNext]_vars

\* ------------------------------------------------- the tracker by itself
\* The tracker under any client: a session whose entries exist, and calls of
\* updateFile and markTerminal in any order, with any file, count and status.
\* The orchestrator's variables play no part, and neither does the direction,
\* which no tracker operation reads.
TrackerInit ==
    /\ descriptors \in DescriptorLists
    /\ ~InitializeFails(descriptors)
    /\ session = setStage(initialize(NewTracker("upload"), descriptors),
                          "transferring")
    /\ numCpus = 1
    /\ queue = <<>>
    /\ active = {}
    /\ wpc = [i \in 1..Len(descriptors) |-> "streaming"]
    /\ copy_progress = [i \in 1..Len(descriptors) |-> 0]
    /\ outboard_progress = [i \in 1..Len(descriptors) |-> 0]
    /\ now = 0
    /\ lastEmitTime = 0
    /\ sent = NoEvents
    /\ result = "running"
    /\ refused = "none"
    /\ channelOpen = TRUE
    /\ consumer = NoConsumer
    /\ dropzone = NoDropZone

\* The terminal statuses and the error that comes with each.
TerminalCalls ==
    {<<"completed", NoError>>, <<"skipped", NoError>>,
     <<"failed", "TransportError">>}

\* updateFile(f, bytes, st) is called; a call on a frozen entry or with a
\* count below the recorded one is refused.
CallUpdateFile(f, bytes, st) ==
    /\ session' = updateFile(session, f, bytes, st)
    /\ refused' = IF IsTerminalStatus(session.files[f].status)
                     \/ bytes < session.files[f].transferredBytes
                  THEN "updateFile" ELSE "none"
    /\ UNCHANGED <<uiVars, channelOpen>>
    /\ UNCHANGED <<numCpus, descriptors, queue, active, wpc,
                   copy_progress, outboard_progress>>
    /\ UNCHANGED emitVars

\* markTerminal(f, st, err) is called; a call on a frozen entry is refused.
CallMarkTerminal(f, st, err) ==
    /\ session' = markTerminal(session, f, st, err)
    /\ refused' = IF IsTerminalStatus(session.files[f].status)
                  THEN "markTerminal" ELSE "none"
    /\ UNCHANGED <<uiVars, channelOpen>>
    /\ UNCHANGED <<numCpus, descriptors, queue, active, wpc,
                   copy_progress, outboard_progress>>
    /\ UNCHANGED emitVars

\* A call of updateFile names a status or leaves the entry's status as it is.
TrackerNext ==
    \/ \E f \in FileIds : \E b \in Reported(f) :
           \E st \in {"transferring", session.files[f].status} :
               CallUpdateFile(f, b, st)
    \/ \E f \in FileIds : \E c \in TerminalCalls :
           CallMarkTerminal(f, c[1], c[2])

TrackerSpec == TrackerInit /\ [][TrackerNext]_vars

\* ------------------------------------------------ FileTransfer (webview)
\* The paths the file dialog can return.
Paths == 1..MaxPaths

\* The ticket share_files_parallel returns, and the ticket a user pastes.
ShareTicket == "blobTicket"

\* toast.success / toast.error with message `which`.
Toast(c, which) == [c EXCEPT !.toasts[which] = @ + 1]

\* selectFiles: the dialog returned the files ps.
selectFiles(c, ps) == [c EXCEPT !.selectedPaths = ps, !.ticket = ""]

\* selectFolder: the dialog returned the folder p.
selectFolder(c, p) == [c EXCEPT !.selectedPaths = {p}, !.ticket = ""]

\* removeFile(pathToRemove).
removeFile(c, pathToRemove) ==
    LET newPaths == c.selectedPaths \ {pathToRemove}
    IN [c EXCEPT !.selectedPaths = newPaths,
                 !.ticket = IF newPaths = {} THEN "" ELSE @]

\* sendFiles: channel.onmessage.  fileProgress and stageChanged have no case.
sendFilesOnMessage(c, event) ==
    IF event.event \in {"transferStarted", "transferProgress"}
    THEN [c EXCEPT !.uploadProgress = Some(event.data.transfer)]
    ELSE IF event.event = "transferCompleted"
    THEN LET shown == [c EXCEPT !.uploadProgress = Some(event.data.transfer)]
         IN IF c.generatedTicket # ""
            THEN Toast([shown EXCEPT !.ticket = c.generatedTicket],
                       "generated")
            ELSE shown
    ELSE IF event.event = "transferFailed"
    THEN Toast([c EXCEPT !.uploadProgress = Some(event.data.transfer)],
               "failed")
    ELSE c

\* sendFiles up to its await: the guard, the two setState calls, the invoke.
sendFiles(c) ==
    IF c.selectedPaths = {}
    THEN Toast(c, "precondition")
    ELSE [c EXCEPT !.sendLoading = TRUE,
                   !.uploadProgress = Null,
                   !.generatedTicket = "",
                   !.invoked = "share",
                   !.paths = c.selectedPaths,
                   !.promise = "pending"]

\* sendFiles after its await, the promise resolved with ticket t: the try
\* block's remainder and the finally block.
sendFilesResolved(c, t) ==
    [c EXCEPT !.generatedTicket = t,
              !.ticket = t,
              !.sendLoading = FALSE,
              !.promise = "settled"]

\* sendFiles after its await, the promise rejected: catch and finally.
sendFilesRejected(c) ==
    [Toast(c, "invokeFailed") EXCEPT !.uploadProgress = Null,
                                     !.sendLoading = FALSE,
                                     !.promise = "settled"]

\* receiveFiles: channel.onmessage.
receiveFilesOnMessage(c, event) ==
    IF event.event \in {"transferStarted", "transferProgress"}
    THEN [c EXCEPT !.downloadProgress = Some(event.data.transfer)]
    ELSE IF event.event = "transferCompleted"
    THEN Toast([c EXCEPT !.downloadProgress = Some(event.data.transfer)],
               "downloaded")
    ELSE IF event.event = "transferFailed"
    THEN Toast([c EXCEPT !.downloadProgress = Some(event.data.transfer)],
               "failed")
    ELSE c

\* receiveFiles up to its await.
receiveFiles(c) ==
    IF c.receiveTicket = ""
    THEN Toast(c, "precondition")
    ELSE [c EXCEPT !.receiveLoading = TRUE,
                   !.downloadProgress = Null,
                   !.invoked = "download",
                   !.promise = "pending"]

\* receiveFiles after its await, the promise resolved.
receiveFilesResolved(c) ==
    [c EXCEPT !.lastDownload = "result",
              !.receiveTicket = "",
              !.receiveLoading = FALSE,
              !.promise = "settled"]

\* receiveFiles after its await, the promise rejected.
receiveFilesRejected(c) ==
    [Toast(c, "invokeFailed") EXCEPT !.downloadProgress = Null,
                                     !.receiveLoading = FALSE,
                                     !.promise = "settled"]

\* The onmessage handler of the channel of the command that was invoked.
OnMessage(c, event) ==
    IF c.invoked = "share"
    THEN sendFilesOnMessage(c, event)
    ELSE receiveFilesOnMessage(c, event)

\* The catch and finally blocks of the function that invoked the command.
Rejected(c) ==
    IF c.invoked = "share"
    THEN sendFilesRejected(c)
    ELSE receiveFilesRejected(c)

\* What the backend's variables are to the webview: out of reach.
backendVars ==
    <<session, numCpus, descriptors, queue, active, wpc,
      copy_progress, outboard_progress, refused, channelOpen>>

\* A step of FileTransfer that changes its state to c.
ConsumerBecomes(c) ==
    /\ consumer' = c
    /\ UNCHANGED backendVars
    /\ UNCHANGED emitVars
    /\ UNCHANGED dropzone

SelectFiles(ps) == ConsumerBecomes(selectFiles(consumer, ps))

SelectFolder(p) == ConsumerBecomes(selectFolder(consumer, p))

RemoveFile(p) ==
    /\ p \in consumer.selectedPaths
    /\ ConsumerBecomes(removeFile(consumer, p))

\* The ticket input's onChange: a ticket is pasted.
EnterTicket ==
    /\ consumer.receiveTicket = ""
    /\ ~consumer.receiveLoading
    /\ ConsumerBecomes([consumer EXCEPT !.receiveTicket = ShareTicket])

\* The send button is clicked; it is disabled with no path selected and while
\* sendLoading.  One invocation is followed from its start to its end.
SendFiles ==
    /\ consumer.invoked = "none"
    /\ consumer.selectedPaths # {}
    /\ ~consumer.sendLoading
    /\ ConsumerBecomes(sendFiles(consumer))

\* The download button is clicked; it is disabled without a ticket and while
\* receiveLoading.
ReceiveFiles ==
    /\ consumer.invoked = "none"
    /\ consumer.receiveTicket # ""
    /\ ~consumer.receiveLoading
    /\ ConsumerBecomes(receiveFiles(consumer))

\* Mutant: the snapshot the event carries is the tracker's own object, and
\* the handler's view of it is written back.
ChannelMessage_shared ==
    /\ consumer.inbox # <<>>
    /\ consumer' = sendFilesOnMessage([consumer EXCEPT !.inbox = Tail(@)],
                                      Head(consumer.inbox))
    /\ session' = [session EXCEPT !.stage =
                       IF Head(consumer.inbox).event = "fileProgress"
                       THEN @ ELSE Head(consumer.inbox).data.transfer.stage]
    /\ UNCHANGED <<numCpus, descriptors, queue, active, wpc,
                   copy_progress, outboard_progress, refused, channelOpen>>
    /\ UNCHANGED emitVars
    /\ UNCHANGED dropzone

\* The next message of the channel is handed to onmessage.
ChannelMessage ==
    /\ consumer.inbox # <<>>
    /\ LET c == [consumer EXCEPT !.inbox = Tail(@)]
           event == Head(consumer.inbox)
       IN ConsumerBecomes(OnMessage(c, event))

\* The invoke promise resolves and the code after the await runs.
InvokeResolved ==
    /\ consumer.promise = "pending"
    /\ result = "ok"
    /\ ConsumerBecomes(IF consumer.invoked = "share"
                       THEN sendFilesResolved(consumer, ShareTicket)
                       ELSE receiveFilesResolved(consumer))

\* The invoke promise rejects and the catch block runs.
InvokeRejected ==
    /\ consumer.promise = "pending"
    /\ result = "error"
    /\ ConsumerBecomes(Rejected(consumer))

\* ---- the command as its caller sees it: events on the channel, then the
\* ---- promise's outcome.
\* A message on the channel.
Event(kind, payload) == [event |-> kind, data |-> payload]

\* The command sends the event and its tracker's session becomes s.
BackendStep(s, kind, payload) ==
    /\ session' = s
    /\ consumer' = [consumer EXCEPT !.inbox = Append(@, Event(kind, payload))]
    /\ UNCHANGED <<numCpus, descriptors, queue, active, wpc,
                   copy_progress, outboard_progress, refused, channelOpen,
                   now, lastEmitTime, sent, dropzone>>

\* The sizes of the files the invocation names: one per path shared, or the
\* one file of the ticket's manifest.
InvokedSizes ==
    IF consumer.invoked = "share"
    THEN [i \in 1..Cardinality(consumer.paths) |-> MaxSize]
    ELSE <<MaxSize>>

\* Steps 1 and 2: the tracker is created and initialized; transferStarted.
BackendStart ==
    /\ consumer.promise = "pending"
    /\ result = "running"
    /\ session.stage = "initializing"
    /\ LET tt == IF consumer.invoked = "share" THEN "upload" ELSE "download"
           s == setStage(initialize(NewTracker(tt), InvokedSizes),
                         "connecting")
       IN BackendStep(s, "transferStarted", [transfer |-> s])
    /\ UNCHANGED result

\* The transport is up: stageChanged.
BackendConnect ==
    /\ session.stage = "connecting"
    /\ BackendStep(setStage(session, "transferring"), "stageChanged",
                   [stage |-> "transferring"])
    /\ UNCHANGED result

\* A worker reports progress and the limiter lets the update through.
BackendProgress(f, b) ==
    /\ session.stage = "transferring"
    /\ ~IsTerminalStatus(session.files[f].status)
    /\ b > session.files[f].transferredBytes
    /\ LET s == updateFile(session, f, b, "transferring")
       IN BackendStep(s, "transferProgress", [transfer |-> s])
    /\ UNCHANGED result

\* A worker ends: fileProgress.
BackendFileDone(f, st, err) ==
    /\ session.stage = "transferring"
    /\ ~IsTerminalStatus(session.files[f].status)
    /\ LET s == markTerminal(session, f, st, err)
       IN BackendStep(s, "fileProgress", [file |-> s.files[f]])
    /\ UNCHANGED result

\* Step 6: the session is finalized, transferCompleted is sent and the
\* command returns.
BackendFinalize ==
    /\ session.stage = "transferring"
    /\ \A f \in FileIds : IsTerminalStatus(session.files[f].status)
    /\ LET s == setStage(session, FinalStage(session))
       IN BackendStep(s, "transferCompleted", [transfer |-> s])
    /\ result' = "ok"

\* The command fails before its workers run: transferFailed is sent and the
\* error is returned.
BackendFail ==
    /\ consumer.promise = "pending"
    /\ result = "running"
    /\ session.stage \in {"initializing", "connecting"}
    /\ LET err == IF session.stage = "connecting" THEN "TransportError"
                  ELSE IF consumer.invoked = "share" THEN "PathError"
                  ELSE "MetadataError"
           s == failTransfer(session, err)
       IN BackendStep(s, "transferFailed", [transfer |-> s, error |-> err])
    /\ result' = "error"

UiInit ==
    /\ session = NewTracker("upload")
    /\ numCpus = 1
    /\ descriptors = <<>>
    /\ queue = <<>>
    /\ active = {}
    /\ wpc = <<>>
    /\ copy_progress = <<>>
    /\ outboard_progress = <<>>
    /\ now = 0
    /\ lastEmitTime = 0
    /\ sent = NoEvents
    /\ result = "running"
    /\ refused = "none"
    /\ channelOpen = TRUE
    /\ consumer = NoConsumer
    /\ dropzone = NoDropZone

UiNext ==
    \/ \E ps \in (SUBSET Paths) \ {{}} : SelectFiles(ps)
    \/ \E p \in Paths : SelectFolder(p)
    \/ \E p \in Paths : RemoveFile(p)
    \/ EnterTicket
    \/ SendFiles
    \/ ReceiveFiles
    \/ ChannelMessage
    \/ InvokeResolved
    \/ InvokeRejected
    \/ BackendStart
    \/ BackendConnect
    \/ \E f \in FileIds : \E b \in 1..MaxSize : BackendProgress(f, b)
    \/ \E f \in FileIds : \E c \in TerminalCalls :
           BackendFileDone(f, c[1], c[2])
    \/ BackendFinalize
    \/ BackendFail

\* FileTransfer, one invocation of a command, and the command.
UiSpec == UiInit /\ [][UiNext]_vars

\* ParallelProgress.getStageDisplay: the label of a snapshot with stage st.
getStageDisplay(st) ==
    IF st = "completed" THEN "COMPLETED"
    ELSE IF st = "failed" THEN "FAILED"
    ELSE IF st = "transferring" THEN "RUNNING"
    ELSE "QUEUED"

\* ---------------------------------------------------- DropZone (webview)
\* The effect runs: setupListeners() is called and its promise is pending;
\* cleanup is undefined.
NewEffect(disabled) ==
    [disabled |-> disabled, resolved |-> FALSE, cleanedUp |-> FALSE,
     listening |-> FALSE]

\* The function the effect returns: cleanup?.() calls unlisten if the
\* then-callback has stored it, and does nothing otherwise.
effectCleanup(e) ==
    [e EXCEPT !.cleanedUp = TRUE,
              !.listening = IF e.resolved THEN FALSE ELSE @]

\* A step of DropZone that changes its state to d.
DropZoneBecomes(d) ==
    /\ dropzone' = d
    /\ UNCHANGED backendVars
    /\ UNCHANGED emitVars
    /\ UNCHANGED consumer

\* The effect run last; only this one may still be waiting for its cleanup.
LastEffect == Len(dropzone.effects)

\* DropZone is mounted and its effect runs for the first time.
Mount(disabled) ==
    /\ ~dropzone.mounted
    /\ Len(dropzone.effects) < MaxEffects
    /\ DropZoneBecomes([dropzone EXCEPT
           !.mounted = TRUE,
           !.isDragging = FALSE,
           !.effects = Append(@, NewEffect(disabled))])

\* A dependency of the effect changes ([disabled, onPathsSelected]): the
\* previous run's cleanup is called, then the effect runs again.
Rerender(disabled) ==
    /\ dropzone.mounted
    /\ Len(dropzone.effects) < MaxEffects
    /\ DropZoneBecomes([dropzone EXCEPT
           !.effects = Append([@ EXCEPT ![LastEffect] = effectCleanup(@)],
                              NewEffect(disabled))])

\* DropZone is unmounted: the last run's cleanup is called.
Unmount ==
    /\ dropzone.mounted
    /\ DropZoneBecomes([dropzone EXCEPT
           !.mounted = FALSE,
           !.effects[LastEffect] = effectCleanup(@)])

\* webview.onDragDropEvent resolves for run e: the listener is registered and
\* the then-callback stores unlisten in that run's cleanup variable.
RegistrationResolves(e) ==
    /\ ~dropzone.effects[e].resolved
    /\ DropZoneBecomes([dropzone EXCEPT
           !.effects[e].resolved = TRUE,
           !.effects[e].listening = TRUE])

\* The webview reports a drag-drop event to the listener of run e, with
\* paths or without.
DragDropEvent(e, type, hasPaths) ==
    /\ dropzone.effects[e].listening
    /\ LET disabled == dropzone.effects[e].disabled
           setsDragging == type # "enter" \/ ~disabled
           selects == type = "drop" /\ ~disabled /\ hasPaths
       IN DropZoneBecomes([dropzone EXCEPT
              !.isDragging = IF setsDragging THEN type = "enter" ELSE @,
              !.selected = @ \/ selects,
              !.stale = @ \/ (dropzone.effects[e].cleanedUp
                               /\ (setsDragging \/ selects))])

DropInit ==
    /\ session = NewTracker("upload")
    /\ numCpus = 1
    /\ descriptors = <<>>
    /\ queue = <<>>
    /\ active = {}
    /\ wpc = <<>>
    /\ copy_progress = <<>>
    /\ outboard_progress = <<>>
    /\ now = 0
    /\ lastEmitTime = 0
    /\ sent = NoEvents
    /\ result = "running"
    /\ refused = "none"
    /\ channelOpen = TRUE
    /\ consumer = NoConsumer
    /\ dropzone = NoDropZone

DropNext ==
    \/ \E d \in BOOLEAN : Mount(d)
    \/ \E d \in BOOLEAN : Rerender(d)
    \/ Unmount
    \/ \E e \in 1..Len(dropzone.effects) : RegistrationResolves(e)
    \/ \E e \in 1..Len(dropzone.effects) :
           \E type \in {"enter", "leave", "drop"} : \E hasPaths \in BOOLEAN :
               DragDropEvent(e, type, hasPaths)

\* DropZone under any sequence of mounts, re-renders, unmounts, resolutions
\* and drag-drop events.
DropSpec == DropInit /\ [][DropNext]_vars

\* ------------------------------------------------------------- claims
RECURSIVE SumSeq(_, _)
\* The sum of the first n sizes of a descriptor list.
SumSeq(sizes, n) == IF n = 0 THEN 0 ELSE sizes[n] + SumSeq(sizes, n - 1)

\* C1: in every state, hence in every snapshot, every file entry has
\* 0 <= transferredBytes <= totalBytes, also when a transport primitive
\* reports more bytes than the file holds.
C1_BytesWithinTotal ==
    \A f \in FileIds :
        /\ 0 <= snapshot.files[f].transferredBytes
        /\ snapshot.files[f].transferredBytes <= snapshot.files[f].totalBytes

\* C1 witness: an upload worker was handed an offset above the file's size and
\* the entry shows the whole file, no more.
C1_Witness ==
    \E f \in FileIds :
        /\ copy_progress[f] > session.files[f].totalBytes
        /\ session.files[f].transferredBytes = session.files[f].totalBytes

\* C2: in every snapshot the session's transferredBytes is the sum of the
\* entries' transferredBytes.
C2_AggregateIsSum ==
    snapshot.transferredBytes = SumTransferredBytes(snapshot.files)

\* C2 witness: two workers have each reported bytes and one has ended.
C2_Witness ==
    /\ Len(session.files) = 2
    /\ \A f \in FileIds : session.files[f].transferredBytes > 0
    /\ \E f \in FileIds : IsTerminalStatus(session.files[f].status)
    /\ \E f \in FileIds : session.files[f].status = "transferring"

\* The totals as initialize fixed them: every entry's totalBytes is its
\* descriptor's size and session.totalBytes is their sum.
TotalsAsInitialized ==
    IF session.files = <<>>
    THEN session.totalBytes = 0
    ELSE /\ Len(session.files) = Len(descriptors)
         /\ \A f \in FileIds : session.files[f].totalBytes = descriptors[f]
         /\ session.totalBytes = SumSeq(descriptors, Len(descriptors))
         /\ session.totalBytes = SumTotalBytes(session.files)
         /\ session.totalFiles = Len(descriptors)

\* C3: session.totalBytes is the sum of the per-file totalBytes fixed at
\* initialize, and once the entries exist no step changes session.totalBytes
\* or any entry's totalBytes.
C3_TotalBytesFixed ==
    /\ []TotalsAsInitialized
    /\ [][session.files # <<>> =>
              /\ session'.totalBytes = session.totalBytes
              /\ Len(session'.files) = Len(session.files)
              /\ \A f \in FileIds :
                     session'.files[f].totalBytes
                         = session.files[f].totalBytes]_vars

\* C3 witness: a session that has run updateFile, markTerminal and its stage
\* changes to the end.
C3_Witness ==
    /\ session.stage = "completed"
    /\ Len(session.files) = 2
    /\ session.transferredBytes > 0
    /\ session.failedFiles = 1

\* The number of entries with status st.
CountStatus(st) == Cardinality({f \in FileIds : session.files[f].status = st})

C7_OneTerminalStage ==
    /\ (session.files # <<>> /\ session.stage \in {"transferring", "finalizing"}
            /\ WorkersDrained)
           ~> IsTerminalStage(session.stage)
    /\ [](session.stage = "completed" => [](session.stage # "failed"))
    /\ [](session.stage = "failed" => [](session.stage # "completed"))

\* C7 witness: the workers of a session have all ended and the session has
\* reached Completed.
C7_Witness ==
    /\ session.stage = "completed"
    /\ WorkersDrained
    /\ \A f \in FileIds : wpc[f] = "done"
    /\ Len(session.files) = 2

\* C8: a step never lowers the stage's rank in Initializing -> Connecting ->
\* Transferring -> Finalizing -> {Completed | Failed}, and a terminal stage is
\* never left.
C8_StageForwardOnly ==
    [][/\ StageRank(session'.stage) >= StageRank(session.stage)
       /\ IsTerminalStage(session.stage) => session'.stage = session.stage
       /\ session'.stage \in TransferStage]_vars

\* C8 witness: a session that went through every stage.
C8_Witness ==
    /\ session.stage = "completed"
    /\ session.completedFiles = 2

\* C9: an entry's status only goes pending -> transferring ->
\* {completed | failed | skipped}; a terminal entry keeps its status.
C9_StatusForwardOnly ==
    [][\A f \in FileIds :
          LET old == session.files[f].status
              new == session'.files[f].status
          IN \/ new = old
             \/ old = "pending" /\ new = "transferring"
             \/ old = "transferring" /\ IsTerminalStatus(new)]_vars

\* C9 witness: one entry completed and one failed while both had been
\* transferring.
C9_Witness ==
    /\ CountStatus("completed") = 1
    /\ CountStatus("failed") = 1
    /\ \A f \in FileIds : wpc[f] = "done"

PreflightErrors == {"PathError", "MetadataError"}

\* C11: a session that ended on a pre-flight error has spawned no worker and
\* created no file entry, and exactly one transferFailed event was sent, the
\* session it carries having an empty files list.
C11_PreflightAbortsClean ==
    session.error \in PreflightErrors =>
        /\ session.stage = "failed"
        /\ session.files = <<>>
        /\ wpc = <<>> /\ active = {} /\ queue = <<>>
        /\ Len(sent.transferFailed) = 1
        /\ sent.transferFailed[1].transfer.files = <<>>
        /\ sent.transferFailed[1].error = session.error

\* C11 witness: a download whose ticket could not be resolved although it
\* names files; the failure event is out.
C11_Witness ==
    /\ session.transferType = "download"
    /\ session.error = "MetadataError"
    /\ Len(descriptors) > 0
    /\ Len(sent.transferFailed) = 1

C12_CriticalEventsOnce ==
    /\ sent.transferStarted = (IF session.files # <<>> THEN 1 ELSE 0)
    /\ sent.transferCompleted + Len(sent.transferFailed)
           = (IF IsTerminalStage(session.stage) THEN 1 ELSE 0)
    /\ \A f \in FileIds :
           sent.fileProgress[f]
               = (IF session.files[f].status \in {"completed", "failed"}
                  THEN 1 ELSE 0)

\* C12 witness: the session completed in the very millisecond in which the
\* limiter let a transferProgress through (the limiter would refuse any
\* further event), and yet its transferCompleted and a file's terminal event
\* are out.
C12_Witness ==
    /\ session.stage = "completed"
    /\ sent.transferProgress # <<>>
    /\ lastEmitTime = now
    /\ ~shouldEmit(now, lastEmitTime, IntervalMs)
    /\ sent.transferCompleted = 1
    /\ \E f \in FileIds : sent.fileProgress[f] = 1

\* A worker hands a non-critical snapshot to the limiter.
WorkerProgressStep ==
    \E f \in FileIds : \E b \in Reported(f) :
        \/ CopyProgress(f, b)
        \/ OutboardProgress(f, b)
        \/ DownloadProgress(f, b)

\* The transferProgress events are at least one interval apart.
ProgressSpaced ==
    \A i \in 1..(Len(sent.transferProgress) - 1) :
        sent.transferProgress[i + 1] - sent.transferProgress[i] >= IntervalMs

\* C13: a worker's snapshot is emitted exactly when at least IntervalMs
\* (100 ms) have passed since lastEmitTime; lastEmitTime becomes now when it
\* is emitted and is left alone when it is not, and nothing else moves
\* lastEmitTime; hence two snapshots less than one interval apart give at
\* most one transferProgress event.
C13_LimiterContract ==
    /\ [][/\ WorkerProgressStep =>
              IF now - lastEmitTime >= IntervalMs
              THEN /\ sent'.transferProgress
                          = Append(sent.transferProgress, now)
                   /\ lastEmitTime' = now
              ELSE /\ sent'.transferProgress = sent.transferProgress
                   /\ lastEmitTime' = lastEmitTime
           /\ (lastEmitTime' # lastEmitTime
                  \/ sent'.transferProgress # sent.transferProgress)
                 => WorkerProgressStep /\ now - lastEmitTime >= IntervalMs]_vars
    /\ []ProgressSpaced

\* C13 witness: two files have both reported bytes, the clock has not reached
\* the end of the second interval and one transferProgress event was sent:
\* the limiter has let one snapshot through and refused another.
C13_Witness ==
    /\ Len(session.files) = 2
    /\ \A f \in FileIds : session.files[f].transferredBytes > 0
    /\ now < 2 * IntervalMs
    /\ Len(sent.transferProgress) = 1

\* The number of transferProgress events sent in the window [t, t + IntervalMs].
ProgressInWindow(t) ==
    Cardinality({j \in 1..Len(sent.transferProgress) :
                    /\ t <= sent.transferProgress[j]
                    /\ sent.transferProgress[j] <= t + IntervalMs})

CountIn(s, st) ==
    Cardinality({f \in 1..Len(s.files) : s.files[f].status = st})

\* The transferredBytes of the entries of s, as a list.
BytesOf(s) == [f \in 1..Len(s.files) |-> s.files[f].transferredBytes]

ProgressStepTaken ==
    /\ session.stage = "transferring"
    /\ session'.stage = "transferring"
    /\ wpc' = wpc
    /\ now' = now

\* What the entry of f gains in the step taken.
Gain(f) ==
    session'.files[f].transferredBytes - session.files[f].transferredBytes

RECURSIVE SumGain(_)
\* What the entries of files 1..n gain in the step taken.
SumGain(n) == IF n = 0 THEN 0 ELSE Gain(n) + SumGain(n - 1)

\* The upload worker of f has handed in its count: the entry is at the higher
\* of its recorded count and the count of the worker's offsets.
UploadLands(f) ==
    session'.files[f].transferredBytes
        = Max(session.files[f].transferredBytes,
              Min(Max(copy_progress'[f], outboard_progress'[f]),
                  session.files[f].totalBytes))

C19_UpdateMonotonic ==
    [][/\ \A f \in FileIds :
             session'.files[f].transferredBytes
                 >= session.files[f].transferredBytes
       /\ refused' = "updateFile" => session' = session]_vars

\* C19 witness: no entry is frozen, one has bytes, and the tracker has just
\* refused an updateFile: it carried a count below the recorded one.
C19_Witness ==
    /\ refused = "updateFile"
    /\ \A f \in FileIds : ~IsTerminalStatus(session.files[f].status)
    /\ \E f \in FileIds : session.files[f].transferredBytes > 0

\* The entries that the step taken brings to status st.
Becoming(st) ==
    {f \in FileIds :
        session'.files[f].status = st /\ session.files[f].status # st}

\* C20: under any client of the tracker, a terminal entry is never changed
\* again, whatever is called for it, and completedFiles and failedFiles grow
\* by exactly the entries that become completed and failed.
C20_TerminalFrozen ==
    [][/\ \A f \in FileIds :
             IsTerminalStatus(session.files[f].status)
                 => session'.files[f] = session.files[f]
       /\ session'.completedFiles
             = session.completedFiles + Cardinality(Becoming("completed"))
       /\ session'.failedFiles
             = session.failedFiles + Cardinality(Becoming("failed"))]_vars

\* C20 witness: every entry is frozen, one completed and one failed, each
\* counted once, and the tracker has just refused a second markTerminal.
C20_Witness ==
    /\ refused = "markTerminal"
    /\ \A f \in FileIds : IsTerminalStatus(session.files[f].status)
    /\ session.completedFiles = 1
    /\ session.failedFiles = 1
    /\ Len(session.files) = 2

\* ---------------------------------------------------------------- C24
\* A session as initialize(direction, sizes) must return it: one entry per
\* descriptor, in order, pending, nothing transferred, the descriptor's size
\* as totalBytes, no file counted completed or failed.
InitializedAsSpecified(s, sizes) ==
    /\ Len(s.files) = Len(sizes)
    /\ \A i \in 1..Len(sizes) :
           /\ s.files[i].status = "pending"
           /\ s.files[i].transferredBytes = 0
           /\ s.files[i].totalBytes = sizes[i]
    /\ s.totalFiles = Len(sizes)
    /\ s.completedFiles = 0
    /\ s.failedFiles = 0

\* C24: initialize fails only on an empty descriptor list or an unavailable
\* size, and then no entry is ever created; on any other list it succeeds
\* (the enumeration step can be taken) and the session it returns has one
\* pending entry per descriptor with transferredBytes = 0 and the
\* descriptor's size, completedFiles = failedFiles = 0 and totalFiles the
\* number of descriptors.
C24_InitializeContract ==
    /\ InitializeFails(descriptors) =>
           /\ session.files = <<>>
           /\ session.totalFiles = 0
           /\ ~ENABLED Enumerate
    /\ (~InitializeFails(descriptors) /\ session.stage = "initializing") =>
           /\ ENABLED Enumerate
           /\ InitializedAsSpecified(initialize(session, descriptors),
                                     descriptors)
    /\ session.stage = "connecting" =>
           InitializedAsSpecified(session, descriptors)

\* Reached: a list of MaxFiles descriptors has just been initialized.
C24_Witness ==
    /\ session.stage = "connecting"
    /\ Len(descriptors) = MaxFiles
    /\ InitializedAsSpecified(session, descriptors)
    /\ sent.transferStarted = 1

\* ---------------------------------------------------------------- C22
\* File f has an entry and the entry is terminal.
Ended(f) == f \in FileIds /\ IsTerminalStatus(session.files[f].status)

\* A permit is held by a worker that has not ended, and by no one else.
PermitsHeldByRunningWorkers ==
    \A f \in active : wpc[f] \in {"spawned", "streaming", "exporting"}

AllTerminated ==
    /\ IsTerminalStage(session.stage)
    /\ active = {}
    /\ \A f \in DOMAIN wpc : wpc[f] \in {"queued", "done"}
    /\ result # "running"

TerminalEvents(ev) == ev.transferCompleted + Len(ev.transferFailed)

\* The number of per-file and aggregate progress events in ev.
ProgressEvents(ev) ==
    Len(ev.transferProgress)
    + SumSeq(ev.fileProgress, Len(ev.fileProgress))

\* No worker is running, and every worker that ran left a terminal entry.
WorkersAllEnded ==
    /\ active = {}
    /\ \A f \in DOMAIN wpc :
           /\ wpc[f] \in {"queued", "done"}
           /\ wpc[f] = "done" => IsTerminalStatus(session.files[f].status)

ConsumerActs ==
    /\ consumer' # consumer
    /\ Len(consumer'.inbox) <= Len(consumer.inbox)

\* The step hands the next message of the channel to onmessage.
HandlesEvent ==
    /\ consumer.inbox # <<>>
    /\ consumer'.inbox = Tail(consumer.inbox)

\* The snapshot FileTransfer displays for the command it invoked.
Displayed(c) ==
    IF c.invoked = "share" THEN c.uploadProgress ELSE c.downloadProgress

\* The events that carry a Session.
SessionEvents ==
    {"transferStarted", "transferProgress", "transferCompleted",
     "transferFailed"}

\* C25: no step of the consumer changes the tracker's Session or any of its
\* FileEntry records, and handling an event replaces the displayed snapshot
\* by the Session the event carries (and leaves it alone when the event
\* carries none).
C25_ConsumerNeverMutates ==
    [][/\ ConsumerActs => session' = session
       /\ HandlesEvent =>
              IF Head(consumer.inbox).event \in SessionEvents
              THEN Displayed(consumer')
                       = Some(Head(consumer.inbox).data.transfer)
              ELSE Displayed(consumer') = Displayed(consumer)]_vars

\* Reached: the consumer displays the snapshot of transferStarted while the
\* tracker's Session has moved on, and the selection was changed after the
\* invocation.
C25_Witness ==
    /\ consumer.invoked = "share"
    /\ consumer.uploadProgress # Null
    /\ consumer.uploadProgress[1].stage = "connecting"
    /\ session.stage = "transferring"
    /\ session.transferredBytes > 0
    /\ consumer.selectedPaths # consumer.paths

\* ---------------------------------------------------------------- C27
\* A share invocation succeeded and FileTransfer has handled both the
\* transferCompleted message and the resolution of the invoke promise.
ShareDelivered ==
    /\ consumer.invoked = "share"
    /\ result = "ok"
    /\ consumer.promise = "settled"
    /\ consumer.inbox = <<>>

\* C27: when sendFiles has handled the last of the two deliveries of a
\* successful share_files_parallel invocation, in whichever order they came,
\* the 'Share ticket generated!' notice has been shown exactly once and the
\* ticket is displayed.
C27_ToastExactlyOnce ==
    [][(~ShareDelivered /\ ShareDelivered') =>
           /\ consumer'.toasts.generated = 1
           /\ consumer'.ticket = ShareTicket]_vars

\* ---------------------------------------------------------------- C28
\* The command has failed: its transferFailed message and the rejection of
\* the invoke promise are both still to be handled.
FailurePending ==
    /\ result = "error"
    /\ consumer.promise = "pending"
    /\ Len(consumer.inbox) = 1
    /\ Head(consumer.inbox).event = "transferFailed"

\* C28: when a share or download invocation has failed, the progress
\* displayed after both the transferFailed message and the rejection have
\* been handled is the same whichever of the two is handled first; and once
\* the promise has settled the loading flag is false.
C28_FailureOrderIrrelevant ==
    /\ FailurePending =>
           LET event == Head(consumer.inbox)
               c == [consumer EXCEPT !.inbox = <<>>]
               eventFirst == Rejected(OnMessage(c, event))
               rejectionFirst == OnMessage(Rejected(c), event)
           IN Displayed(eventFirst) = Displayed(rejectionFirst)
    /\ consumer.promise = "settled" =>
           ~consumer.sendLoading /\ ~consumer.receiveLoading

\* ---------------------------------------------------------------- C29
\* The runs of the effect whose listener is registered.
Listening ==
    {e \in 1..Len(dropzone.effects) : dropzone.effects[e].listening}

\* C29: once an effect's cleanup has run its listener is not registered, also
\* when the cleanup ran before the registration resolved; no listener calls
\* onPathsSelected or setIsDragging after its effect's cleanup; and at most
\* one listener is registered at any time.
C29_CleanupUnregisters ==
    /\ \A e \in 1..Len(dropzone.effects) :
           dropzone.effects[e].cleanedUp => ~dropzone.effects[e].listening
    /\ ~dropzone.stale
    /\ Cardinality(Listening) <= 1

\* ---------------------------------------------------------------- C30
\* The order of the labels: QUEUED, then RUNNING, then COMPLETED or FAILED.
LabelRank(label) ==
    IF label = "QUEUED" THEN 0
    ELSE IF label = "RUNNING" THEN 1
    ELSE 2

\* C30: as the session's stage advances, the label getStageDisplay gives for
\* it never goes backwards: QUEUED, then RUNNING, then COMPLETED or FAILED,
\* and never QUEUED again after RUNNING.
C30_LabelNeverGoesBack ==
    [][LabelRank(getStageDisplay(session'.stage))
           >= LabelRank(getStageDisplay(session.stage))]_vars

====
